---- MODULE Spec2Model ----
(***************************************************************************)
(* The bonding-curve ledger of src/src/affiliate.py (class TokenSale),     *)
(* driven by asyncio tasks.  A coroutine runs without interruption from    *)
(* one await to the next, so every action below is one such segment of a   *)
(* handler: the call up to its first await, or the resumption after an     *)
(* awaited token operation (transfer, mint, burn, send_transaction) has    *)
(* returned or raised.                                                     *)
(*                                                                         *)
(* Decimal amounts are kept exact: total_raised is stored as an integer    *)
(* number of 1/Unit lamports, Unit = CommissionRateDen * slope, which      *)
(* holds every value base_price * (1 + supply / slope) * tokens and        *)
(* amount * commission_rate exactly.  The configurations used have a       *)
(* slope whose reciprocal terminates in decimal, so Decimal's 28 digit     *)
(* context is exact on them as well.                                       *)
(***************************************************************************)
EXTENDS Integers, FiniteSets, Sequences, TLC

\* ---------------------------------------------------------------- bounds
MaxOps == 3
MaxBuyUnits == 2
MaxSell == 2
\* client-function calls made in one run
MaxCalls == 3

\* commission_rate: Decimal = Decimal("0.1")
CommissionRateNum == 1
CommissionRateDen == 10

\* two coroutines can be in flight on the event loop at once
Tasks == {1, 2}

\* lamport amounts offered to buy_tokens (multiples of 5: 5 * 0.1 = 0.5)
BuyAmounts == {-5} \cup {5 * k : k \in 0..MaxBuyUnits}
\* token amounts offered to sell_tokens
SellAmounts == 0..MaxSell

Owner == "owner"
Buyers == {"alice"}
NoReferrer == "None"
Referrers == {NoReferrer, "carol"}
\* who may call withdraw on the ledger object
Requesters == {Owner, "alice"}
Identities == {Owner} \cup Buyers \cup (Referrers \ {NoReferrer})

\* BondingCurveConfig(base_price, slope, total_supply)
Configs ==
    { [base_price |-> 2, slope |-> 5, total_supply |-> 8],
      [base_price |-> 1, slope |-> 10, total_supply |-> 12] }

VARIABLES
    config,             \* self.config
    total_tokens_sold,  \* self.total_tokens_sold
    total_raised,       \* self.total_raised, in 1/Unit lamports
    referrers,          \* self.referrers: buyer -> referrer
    pc,                 \* per task: the await its coroutine is suspended at
    op,                 \* per task: the call it is running or ran last
    result,             \* per task: how that call ended
    effects,            \* per task: token operations of that call that were applied
    minted,             \* tokens minted by token.mint
    burned,             \* tokens burned by token.burn
    received,           \* lamports/tokens moved to each identity by transfers
    opsStarted,         \* number of calls made so far
    overlapped,         \* a call began while another one was suspended
    ico,                \* on chain: the account at each ico_state address
    resource,           \* on chain: the account at each resource_state address
    last,               \* the latest call of a client function and its outcome
    calls,              \* number of client-function calls made so far
    quotes,             \* lines printed by the pricing commands, in order
    runs,               \* runs of run_app: what escaped app() and how it ended
    sales,              \* the TokenSale objects a proxy can point at
    implementation,     \* TokenSaleProxy._implementation
    proxied,            \* the latest call made through the proxy
    proxyCalls          \* number of calls made on the proxy so far

\* the fields of the TokenSale object and of the coroutines calling it
ledgerVars == << config, total_tokens_sold, total_raised, referrers, pc, op,
                 result, effects, minted, burned, received, opsStarted,
                 overlapped >>

\* the accounts of the deployed program and the client calls made against it
chainVars == << ico, resource, last, calls >>

\* the output of the pricing commands of src/src/cli
pricingVars == << quotes >>

\* the runs of main.run_app
cliVars == << runs >>

\* a TokenSaleProxy and the TokenSale objects it is pointed at
proxyVars == << sales, implementation, proxied, proxyCalls >>

vars == << config, total_tokens_sold, total_raised, referrers, pc, op, result,
           effects, minted, burned, received, opsStarted, overlapped,
           ico, resource, last, calls, quotes, runs,
           sales, implementation, proxied, proxyCalls >>

\* ---------------------------------------------------------------- arithmetic
\* int(x) of a Decimal a / b, b > 0: truncation toward zero
TruncDiv(a, b) == IF a >= 0 THEN a \div b ELSE -((-a) \div b)

Unit == CommissionRateDen * config.slope

\* faulty variant of CalculateTokenPrice: the supply is left out
FlatTokenPrice(current_supply) ==
    config.base_price * config.slope * CommissionRateDen

\* _calculate_token_price(current_supply), in 1/Unit lamports:
\* base_price * (1 + current_supply / slope)
CalculateTokenPrice(current_supply) ==
    config.base_price * (config.slope + current_supply) * CommissionRateDen

\* tokens_to_buy = int(amount / token_price)
TokensToBuy(amount, token_price) == TruncDiv(amount * Unit, token_price)

\* commission = Decimal(amount) * self.commission_rate, in 1/Unit lamports
Commission(amount) == (amount * Unit * CommissionRateNum) \div CommissionRateDen

\* amount_to_return = Decimal(tokens_to_sell) * token_price, in 1/Unit lamports
AmountToReturn(tokens_to_sell, token_price) == tokens_to_sell * token_price

\* faulty variant of BuySupply: the supply confirmed by the token program
ConfirmedSupply == minted - burned
\* the supply buy_tokens prices at: self.total_tokens_sold
BuySupply == total_tokens_sold

\* faulty variant of SupplyExceeded: the tokens already sold are left out
SupplyUncheckedSold(tokens_to_buy, sold) == tokens_to_buy > config.total_supply
\* tokens_to_buy + self.total_tokens_sold > self.config.total_supply
SupplyExceeded(tokens_to_buy, sold) == tokens_to_buy + sold > config.total_supply

\* faulty variant of InvalidAmount: an amount of zero is let through
NegativeAmount(amount) == amount < 0
\* amount <= 0, tokens_to_sell <= 0
InvalidAmount(amount) == amount <= 0

\* faulty variant of SellSupply: the supply before the sale
PreSaleSupply(sold, tokens_to_sell) == sold
\* the supply sell_tokens prices at: self.total_tokens_sold - tokens_to_sell
SellSupply(sold, tokens_to_sell) == sold - tokens_to_sell

\* faulty variant of SoldAfterSell: one sale is counted, not its tokens
SoldAfterSellByOne(sold, tokens_to_sell) == sold - 1
\* self.total_tokens_sold -= tokens_to_sell
SoldAfterSell(sold, tokens_to_sell) == sold - tokens_to_sell

\* self.total_tokens_sold < tokens_to_sell
CirculationShort(tokens_to_sell, sold) == sold < tokens_to_sell

\* int(self.total_raised), the lamports withdraw transfers
WithdrawLamports == TruncDiv(total_raised, Unit)

NoOp ==
    [ kind |-> "none", amount |-> 0, who |-> Owner, referrer |-> NoReferrer,
      tokens |-> 0, commission |-> 0, refund |-> 0,
      pre_sold |-> 0, pre_raised |-> 0, seq |-> 0 ]

\* ---------------------------------------------------------------- client calls: values
\* keypairs that call the client functions; an ICO owner or a resource
\* server is named by the public key of one of them
Signers == {"owner", "alice"}
\* token_mint_str
Mints == {"mintA", "mintB"}
\* resource_id
ResourceIds == {"r1", "r2"}

\* (total_supply, base_price, scaling_factor) passed to initialize_ico
IcoConfigs ==
    { [total_supply |-> 4, base_price |-> 1, scaling_factor |-> 2],
      [total_supply |-> 6, base_price |-> 1, scaling_factor |-> 2],
      [total_supply |-> 0, base_price |-> 1, scaling_factor |-> 2],
      [total_supply |-> 4, base_price |-> 1, scaling_factor |-> 0],
      [total_supply |-> 4, base_price |-> -1, scaling_factor |-> 2] }

\* amount_lamports / amount_tokens passed to buy_tokens, sell_tokens,
\* withdraw_from_escrow
TradeAmounts == {-1, 0, 3}
\* access_fee passed to create_resource_access
AccessFees == {-1, 0, 2}
\* amount_lamports passed to access_resource
AccessAmounts == {-1, 1, 2, 3}

\* what goes wrong around one call, if anything: a public-key string that
\* does not parse, a failing address derivation, no blockhash in the
\* response, an RPC error while fetching it, an RPC error on submission (the
\* node refuses the transaction), a submission that times out on the client
\* while the transaction is carried out all the same
Faults == {"none", "bad_key", "pda_error", "no_blockhash", "blockhash_error",
           "rpc_error", "timeout"}

\* what get_account_info finds for an associated token account: the account,
\* a response with value None, or an RPC error
AtaStates == {"exists", "empty", "error"}

\* ---------------------------------------------------------------- client calls: addresses
\* find_ico_state_pda: find_program_address([b"ico_state", bytes(owner)], program_id)
FindIcoStatePda(owner_pubkey) == << "ico_state", owner_pubkey >>

\* find_escrow_pda: find_program_address([b"escrow_account", bytes(owner)], program_id)
FindEscrowPda(owner_pubkey) == << "escrow_account", owner_pubkey >>

\* faulty variant of FindResourceStatePda: the resource id is not a seed
FindResourceStatePdaByServer(server_pubkey, resource_id) ==
    << "resource_state", server_pubkey, "r1" >>

\* find_resource_state_pda: find_program_address(
\*     [b"resource_state", bytes(server), resource_id.encode()], program_id)
FindResourceStatePda(server_pubkey, resource_id) ==
    << "resource_state", server_pubkey, resource_id >>

\* faulty variant of InitIcoStatePda: the address is derived from the mint
InitIcoStatePdaByMint(owner_pubkey, token_mint_pubkey) ==
    FindIcoStatePda(token_mint_pubkey)

\* initialize_ico: ico_state_pda, _ = find_ico_state_pda(owner_pubkey, program_id_pubkey)
InitIcoStatePda(owner_pubkey, token_mint_pubkey) ==
    FindIcoStatePda(owner_pubkey)

\* faulty variant of BuyIcoStatePda: derived from the buyer's key
BuyIcoStatePdaByBuyer(buyer_pubkey, ico_owner_pubkey) ==
    FindIcoStatePda(buyer_pubkey)

\* buy_tokens: ico_state_pda, _ = find_ico_state_pda(ico_owner_pubkey, program_id_pubkey)
BuyIcoStatePda(buyer_pubkey, ico_owner_pubkey) ==
    FindIcoStatePda(ico_owner_pubkey)

\* faulty variant of AccessResourceStatePda: derived from the paying user
AccessResourceStatePdaByUser(user_pubkey, server_pubkey, resource_id) ==
    FindResourceStatePda(user_pubkey, resource_id)

\* access_resource: find_resource_state_pda(server_pubkey, resource_id, program_id_pubkey)
AccessResourceStatePda(user_pubkey, server_pubkey, resource_id) ==
    FindResourceStatePda(server_pubkey, resource_id)

\* the addresses an account of either kind can be at
IcoAddresses == { << "ico_state", k >> : k \in Signers \cup Mints }
ResourceAddresses ==
    { << "resource_state", k, r >> : k \in Signers, r \in ResourceIds }

\* an address that holds no account
NoIco ==
    [exists |-> FALSE, owner |-> "None", mint |-> "None", total_supply |-> 0,
     base_price |-> 0, scaling_factor |-> 0, tokens_sold |-> 0, escrow |-> 0]

NoResource == [exists |-> FALSE, owner |-> "None", access_fee |-> 0]

\* no client function has been called yet
NoCall ==
    [fn |-> "none", signer |-> "None", target |-> "None", mint |-> "None",
     resource_id |-> "None", amount |-> 0, fault |-> "none", ata |-> "exists",
     config |-> [total_supply |-> 0, base_price |-> 0, scaling_factor |-> 0],
     accounts |-> << >>, instructions |-> << >>, blockhash |-> "unset",
     submits |-> 0,
     result |-> "none", cause |-> "none", paid_to |-> "None", paid |-> 0]

\* nothing exists on chain yet: no ICO, no resource record
ChainInit ==
    /\ ico = [a \in IcoAddresses |-> NoIco]
    /\ resource = [a \in ResourceAddresses |-> NoResource]
    /\ last = NoCall
    /\ calls = 0

\* ---------------------------------------------------------------- other initial values
\* no pricing command has printed anything yet
PricingInit == quotes = << >>

\* run_app has not been run yet
CliInit == runs = << >>

\* TokenSale implementations a proxy can be pointed at
Implementations == {"v1", "v2"}

\* TokenSale.__init__: total_raised, total_tokens_sold, referrers
NewSale ==
    [total_tokens_sold |-> 0, total_raised |-> 0,
     referrers |-> [b \in Buyers |-> NoReferrer]]

\* no call has been made on the proxy yet
NoProxied ==
    [fn |-> "none", target |-> "None", amount |-> 0, who |-> "None",
     referrer |-> NoReferrer, printed |-> << >>, result |-> "none",
     before |-> NewSale, seq |-> 0]

\* TokenSaleProxy.__init__(implementation) over two fresh TokenSale objects
ProxyInit ==
    /\ sales = [i \in Implementations |-> NewSale]
    /\ implementation = "v1"
    /\ proxied = NoProxied
    /\ proxyCalls = 0

\* ---------------------------------------------------------------- Init
\* TokenSale.__init__
Init ==
    /\ config \in Configs
    /\ total_tokens_sold = 0
    /\ total_raised = 0
    /\ referrers = [b \in Buyers |-> NoReferrer]
    /\ pc = [t \in Tasks |-> "idle"]
    /\ op = [t \in Tasks |-> NoOp]
    /\ result = [t \in Tasks |-> "none"]
    /\ effects = [t \in Tasks |-> {}]
    /\ minted = 0
    /\ burned = 0
    /\ received = [i \in Identities |-> 0]
    /\ opsStarted = 0
    /\ overlapped = FALSE
    /\ ChainInit
    /\ PricingInit
    /\ CliInit
    /\ ProxyInit

\* bookkeeping shared by the first segment of every call; a new coroutine
\* takes the lowest free task slot, idle slots being interchangeable
Begin(t, call) ==
    /\ pc[t] = "idle"
    /\ UNCHANGED << chainVars, pricingVars, cliVars, proxyVars >>
    /\ \A u \in Tasks : u < t => pc[u] # "idle"
    /\ opsStarted < MaxOps
    /\ opsStarted' = opsStarted + 1
    /\ overlapped' = (overlapped \/ \E u \in Tasks \ {t} : pc[u] # "idle")
    /\ op' = [op EXCEPT ![t] =
                [call EXCEPT !.pre_sold = total_tokens_sold,
                             !.pre_raised = total_raised,
                             !.seq = opsStarted + 1]]
    /\ effects' = [effects EXCEPT ![t] = {}]

Reject(t, error) ==
    /\ pc' = pc
    /\ result' = [result EXCEPT ![t] = error]
    /\ UNCHANGED << total_tokens_sold, total_raised, referrers >>

\* ---------------------------------------------------------------- buy_tokens
\* buy_tokens up to its first await
BuyTokens(t, amount, buyer, referrer) ==
    LET token_price == CalculateTokenPrice(BuySupply)
        tokens_to_buy == TokensToBuy(amount, token_price)
        commission == IF referrer # NoReferrer THEN Commission(amount) ELSE 0
        call == [NoOp EXCEPT !.kind = "buy", !.amount = amount, !.who = buyer,
                             !.referrer = referrer,
                             !.tokens = IF InvalidAmount(amount) THEN 0 ELSE tokens_to_buy,
                             !.commission = IF InvalidAmount(amount) THEN 0 ELSE commission]
    IN  /\ Begin(t, call)
        /\ UNCHANGED << config, minted, burned, received >>
        /\ IF InvalidAmount(amount)
             THEN Reject(t, "InvalidAmountError")
             ELSE IF SupplyExceeded(tokens_to_buy, total_tokens_sold)
             THEN Reject(t, "InsufficientTokensError")
             ELSE /\ total_tokens_sold' = total_tokens_sold + tokens_to_buy
                  /\ total_raised' = total_raised + amount * Unit
                  /\ result' = [result EXCEPT ![t] = "pending"]
                  /\ IF referrer # NoReferrer
                       THEN /\ referrers' = [referrers EXCEPT ![buyer] = referrer]
                            /\ pc' = [pc EXCEPT ![t] = "transfer"]
                       ELSE /\ referrers' = referrers
                            /\ pc' = [pc EXCEPT ![t] = "mint"]

\* await self.token.transfer(int(commission), ...) returns (ok) or raises
TransferDone(t, ok) ==
    /\ pc[t] = "transfer"
    /\ UNCHANGED << chainVars, pricingVars, cliVars, proxyVars >>
    /\ UNCHANGED << config, total_tokens_sold, referrers, op, minted, burned,
                    opsStarted, overlapped >>
    /\ IF ok
         THEN /\ received' = [received EXCEPT ![op[t].referrer] =
                                 @ + TruncDiv(op[t].commission, Unit)]
              /\ effects' = [effects EXCEPT ![t] = @ \cup {"transfer"}]
              /\ total_raised' = total_raised - op[t].commission
              /\ pc' = [pc EXCEPT ![t] = "mint"]
              /\ result' = result
         ELSE /\ pc' = [pc EXCEPT ![t] = "idle"]
              /\ result' = [result EXCEPT ![t] = "ExternalError"]
              /\ UNCHANGED << received, effects, total_raised >>

\* return await self.token.mint(tokens_to_buy, buyer, commitment)
MintDone(t, ok) ==
    /\ pc[t] = "mint"
    /\ UNCHANGED << chainVars, pricingVars, cliVars, proxyVars >>
    /\ pc' = [pc EXCEPT ![t] = "idle"]
    /\ UNCHANGED << config, total_tokens_sold, total_raised, referrers, op,
                    burned, received, opsStarted, overlapped >>
    /\ IF ok
         THEN /\ minted' = minted + op[t].tokens
              /\ effects' = [effects EXCEPT ![t] = @ \cup {"mint"}]
              /\ result' = [result EXCEPT ![t] = "ok"]
         ELSE /\ result' = [result EXCEPT ![t] = "ExternalError"]
              /\ UNCHANGED << minted, effects >>

\* ---------------------------------------------------------------- sell_tokens
\* sell_tokens up to its await
SellTokens(t, tokens_to_sell, seller) ==
    LET token_price == CalculateTokenPrice(SellSupply(total_tokens_sold, tokens_to_sell))
        amount_to_return == AmountToReturn(tokens_to_sell, token_price)
        accepted == ~ InvalidAmount(tokens_to_sell) /\ ~ CirculationShort(tokens_to_sell, total_tokens_sold)
        call == [NoOp EXCEPT !.kind = "sell", !.amount = tokens_to_sell, !.who = seller,
                             !.tokens = tokens_to_sell,
                             !.refund = IF accepted THEN amount_to_return ELSE 0]
    IN  /\ Begin(t, call)
        /\ UNCHANGED << config, minted, burned, received >>
        /\ IF InvalidAmount(tokens_to_sell)
             THEN Reject(t, "InvalidAmountError")
             ELSE IF CirculationShort(tokens_to_sell, total_tokens_sold)
             THEN Reject(t, "InsufficientTokensError")
             ELSE /\ total_tokens_sold' = SoldAfterSell(total_tokens_sold, tokens_to_sell)
                  /\ total_raised' = total_raised - amount_to_return
                  /\ referrers' = referrers
                  /\ result' = [result EXCEPT ![t] = "pending"]
                  /\ pc' = [pc EXCEPT ![t] = "burn"]

\* return await self.token.burn(tokens_to_sell, seller, commitment);
\* the token program cannot burn tokens that were never minted
BurnDone(t, ok) ==
    /\ pc[t] = "burn"
    /\ UNCHANGED << chainVars, pricingVars, cliVars, proxyVars >>
    /\ ok => op[t].tokens <= minted - burned
    /\ pc' = [pc EXCEPT ![t] = "idle"]
    /\ UNCHANGED << config, total_tokens_sold, total_raised, referrers, op,
                    minted, received, opsStarted, overlapped >>
    /\ IF ok
         THEN /\ burned' = burned + op[t].tokens
              /\ effects' = [effects EXCEPT ![t] = @ \cup {"burn"}]
              /\ result' = [result EXCEPT ![t] = "ok"]
         ELSE /\ result' = [result EXCEPT ![t] = "ExternalError"]
              /\ UNCHANGED << burned, effects >>

\* ---------------------------------------------------------------- withdraw
\* withdraw up to its await: the transfer of int(self.total_raised) lamports
\* to the owner is built and handed to send_transaction, signed by self.owner,
\* whoever the caller is
Withdraw(t, requester) ==
    LET call == [NoOp EXCEPT !.kind = "withdraw", !.amount = WithdrawLamports,
                             !.who = requester]
    IN  /\ Begin(t, call)
        /\ UNCHANGED << config, total_tokens_sold, total_raised, referrers,
                        minted, burned, received >>
        /\ result' = [result EXCEPT ![t] = "pending"]
        /\ pc' = [pc EXCEPT ![t] = "send"]

\* await ...client.send_transaction(tx, self.owner, ...) returns or raises;
\* a transfer of a negative number of lamports cannot be carried out
SendDone(t, ok) ==
    /\ pc[t] = "send"
    /\ UNCHANGED << chainVars, pricingVars, cliVars, proxyVars >>
    /\ ok => op[t].amount >= 0
    /\ pc' = [pc EXCEPT ![t] = "idle"]
    /\ UNCHANGED << config, total_tokens_sold, total_raised, referrers, op,
                    minted, burned, opsStarted, overlapped >>
    /\ IF ok
         THEN /\ received' = [received EXCEPT ![Owner] = @ + op[t].amount]
              /\ effects' = [effects EXCEPT ![t] = @ \cup {"system_transfer"}]
              /\ result' = [result EXCEPT ![t] = "ok"]
         ELSE /\ result' = [result EXCEPT ![t] = "ExternalError"]
              /\ UNCHANGED << received, effects >>

Next ==
    \/ \E t \in Tasks, amount \in BuyAmounts, buyer \in Buyers, referrer \in Referrers :
          BuyTokens(t, amount, buyer, referrer)
    \/ \E t \in Tasks, ok \in BOOLEAN : TransferDone(t, ok)
    \/ \E t \in Tasks, ok \in BOOLEAN : MintDone(t, ok)
    \/ \E t \in Tasks, tokens_to_sell \in SellAmounts, seller \in Buyers :
          SellTokens(t, tokens_to_sell, seller)
    \/ \E t \in Tasks, ok \in BOOLEAN : BurnDone(t, ok)
    \/ \E t \in Tasks, requester \in Requesters : Withdraw(t, requester)
    \/ \E t \in Tasks, ok \in BOOLEAN : SendDone(t, ok)

Spec == Init /\ [][Next]_vars

\* ---------------------------------------------------------------- the deployed program
\* The program the client functions address is not part of the sources; its
\* instructions follow sections 4.2 and 4.3 of the specification. Each
\* ...Error operator gives the error the instruction fails with, or "ok".

\* initialize: InvalidConfig
InvalidConfig(cfg) ==
    cfg.total_supply <= 0 \/ cfg.base_price < 0 \/ cfg.scaling_factor <= 0

\* initialize(owner, config), addressed to the account at addr
ProgramInitializeError(addr, cfg) ==
    IF ico[addr].exists THEN "AlreadyInitialized"
    ELSE IF InvalidConfig(cfg) THEN "InvalidConfig"
    ELSE "ok"

ProgramInitialize(addr, owner, mint, cfg) ==
    [ico EXCEPT ![addr] =
        [exists |-> TRUE, owner |-> owner, mint |-> mint,
         total_supply |-> cfg.total_supply, base_price |-> cfg.base_price,
         scaling_factor |-> cfg.scaling_factor, tokens_sold |-> 0, escrow |-> 0]]

\* pricer.price(supply) of an IcoState, in 1/scaling_factor lamports; the
\* escrow field is kept in the same unit
ProgramPrice(state, supply) == state.base_price * (state.scaling_factor + supply)

\* tokens_to_mint = floor(principal_amount / token_price)
ProgramTokensToMint(state, amount) ==
    TruncDiv(amount * state.scaling_factor, ProgramPrice(state, state.tokens_sold))

\* refund_amount = token_amount * price(tokens_sold - token_amount)
ProgramRefund(state, tokens) ==
    tokens * ProgramPrice(state, state.tokens_sold - tokens)

\* buy(state, principal_amount, buyer)
ProgramBuyError(addr, amount) ==
    IF ~ ico[addr].exists THEN "AccountNotFound"
    ELSE IF amount <= 0 THEN "InvalidAmount"
    ELSE IF ico[addr].tokens_sold + ProgramTokensToMint(ico[addr], amount)
                > ico[addr].total_supply THEN "InsufficientSupply"
    ELSE "ok"

ProgramBuy(addr, amount) ==
    [ico EXCEPT ![addr].tokens_sold = @ + ProgramTokensToMint(ico[addr], amount),
                ![addr].escrow = @ + amount * ico[addr].scaling_factor]

\* sell(state, token_amount, seller)
ProgramSellError(addr, tokens) ==
    IF ~ ico[addr].exists THEN "AccountNotFound"
    ELSE IF tokens <= 0 THEN "InvalidAmount"
    ELSE IF tokens > ico[addr].tokens_sold THEN "InsufficientCirculation"
    ELSE IF ProgramRefund(ico[addr], tokens) > ico[addr].escrow THEN "InsufficientEscrow"
    ELSE "ok"

ProgramSell(addr, tokens) ==
    [ico EXCEPT ![addr].tokens_sold = @ - tokens,
                ![addr].escrow = @ - ProgramRefund(ico[addr], tokens)]

\* withdraw(state, requester, amount)
ProgramWithdrawError(addr, requester, amount) ==
    IF ~ ico[addr].exists THEN "AccountNotFound"
    ELSE IF requester # ico[addr].owner THEN "Unauthorized"
    ELSE IF amount * ico[addr].scaling_factor > ico[addr].escrow THEN "InsufficientEscrow"
    ELSE "ok"

ProgramWithdraw(addr, amount) ==
    [ico EXCEPT ![addr].escrow = @ - amount * ico[addr].scaling_factor]

\* create_or_update(owner, resource_id, access_fee): an upsert
ProgramCreateResourceError(addr, access_fee) ==
    IF access_fee < 0 THEN "InvalidAmount" ELSE "ok"

ProgramCreateResource(addr, owner, access_fee) ==
    [resource EXCEPT ![addr] =
        [exists |-> TRUE, owner |-> owner, access_fee |-> access_fee]]

\* access(resource_id, owner, payer, amount)
ProgramAccessError(addr, amount) ==
    IF ~ resource[addr].exists THEN "ResourceNotFound"
    ELSE IF amount # resource[addr].access_fee THEN "FeeMismatch"
    ELSE "ok"

\* ---------------------------------------------------------------- SolanaClient
\* faulty variant of Submissions: the transaction is handed over although
\* no blockhash was obtained
SubmissionsWithoutBlockhash(fault) == 1

\* faulty variant of Submissions: a failed submission is sent once more
SubmissionsWithRetry(fault) ==
    IF fault \in {"no_blockhash", "blockhash_error"} THEN 0
    ELSE IF fault \in {"rpc_error", "timeout"} THEN 2
    ELSE 1

\* SolanaClient.send_transaction: how often the transaction is handed to
\* self.client.send_transaction; not at all when no blockhash was obtained
Submissions(fault) ==
    IF fault \in {"no_blockhash", "blockhash_error"} THEN 0 ELSE 1

\* self.client.get_latest_blockhash() returned a blockhash, which is set as
\* transaction.recent_blockhash
BlockhashObtained(fault) == fault \notin {"no_blockhash", "blockhash_error"}

\* the submitted transaction is carried out by the cluster
Executed(fault) == fault \in {"none", "timeout"}

\* struct.pack("<...Q", ...) accepts an unsigned value only
FitsU64(value) == value >= 0

\* faulty variant of ClientResult: the clause re-raising ValueError and
\* PDAError is missing, the last clause wraps them
ClientResultWrapsAll(fault, early, packed, program_error, op_error, tx_error) ==
    IF fault \in {"bad_key", "pda_error"} THEN op_error
    ELSE IF early # "none" THEN early
    ELSE IF ~ packed THEN op_error
    ELSE IF fault # "none" \/ program_error # "ok" THEN tx_error
    ELSE "ok"

\* how a client function ends: the checks of its try block in their order,
\* then its except clauses; early is an error raised before packing
ClientResult(fault, early, packed, program_error, op_error, tx_error) ==
    IF fault = "bad_key" THEN "ValueError"
    ELSE IF fault = "pda_error" THEN "PDAError"
    ELSE IF early # "none" THEN early
    ELSE IF ~ packed THEN op_error
    ELSE IF fault # "none" \/ program_error # "ok" THEN tx_error
    ELSE "ok"

\* why it ended so
ClientCause(fault, early, packed, program_error) ==
    IF fault \in {"bad_key", "pda_error"} THEN fault
    ELSE IF early # "none" THEN "get_account_info"
    ELSE IF ~ packed THEN "struct.error"
    ELSE IF fault \notin {"none", "timeout"} THEN fault
    ELSE IF program_error # "ok" THEN program_error
    ELSE fault

\* the call got as far as solana_client.send_transaction
ReachedSend(fault, early, packed) ==
    fault \notin {"bad_key", "pda_error"} /\ early = "none" /\ packed

\* ---------------------------------------------------------------- ico_manager
\* bookkeeping of every client call: it is recorded as the latest one
Invoke(call) ==
    /\ calls < MaxCalls
    /\ calls' = calls + 1
    /\ last' = call
    /\ UNCHANGED << ledgerVars, pricingVars, cliVars, proxyVars >>

\* initialize_ico(solana_client, program_id_str, owner_keypair, token_mint_str,
\*                total_supply, base_price, scaling_factor)
InitializeIco(owner_keypair, token_mint, cfg, fault) ==
    LET ico_state_pda == InitIcoStatePda(owner_keypair, token_mint)
        escrow_pda == FindEscrowPda(owner_keypair)
        packed == /\ FitsU64(cfg.total_supply)
                  /\ FitsU64(cfg.base_price)
                  /\ FitsU64(cfg.scaling_factor)
        reached == ReachedSend(fault, "none", packed)
        ran == reached /\ Executed(fault)
        program_error ==
            IF ran THEN ProgramInitializeError(ico_state_pda, cfg) ELSE "not_run"
    IN  /\ Invoke([NoCall EXCEPT
                !.fn = "initialize_ico", !.signer = owner_keypair,
                !.target = owner_keypair, !.mint = token_mint,
                !.config = cfg, !.fault = fault,
                !.accounts = IF fault \in {"bad_key", "pda_error"} THEN << >>
                             ELSE << ico_state_pda, escrow_pda >>,
                !.instructions = IF reached THEN << "initialize" >> ELSE << >>,
                !.blockhash = IF reached /\ BlockhashObtained(fault)
                                THEN "latest" ELSE "unset",
                !.submits = IF reached THEN Submissions(fault) ELSE 0,
                !.result = ClientResult(fault, "none", packed, program_error,
                               "ICOInitializationError", "ICOInitializationError"),
                !.cause = ClientCause(fault, "none", packed, program_error)])
        /\ ico' = IF ran /\ program_error = "ok"
                    THEN ProgramInitialize(ico_state_pda, owner_keypair, token_mint, cfg)
                    ELSE ico
        /\ UNCHANGED resource

\* buy_tokens(solana_client, program_id_str, buyer_keypair, amount_lamports,
\*            ico_owner_pubkey_str, token_mint_str); an RPC error of the
\* account query adds the create-ATA instruction, an empty response does
\* not; a TransactionError is re-raised by the first except clause
IcoBuyTokens(buyer_keypair, amount_lamports, ico_owner_pubkey, token_mint, ata, fault) ==
    LET ico_state_pda == BuyIcoStatePda(buyer_keypair, ico_owner_pubkey)
        escrow_pda == FindEscrowPda(ico_owner_pubkey)
        packed == FitsU64(amount_lamports)
        reached == ReachedSend(fault, "none", packed)
        ran == reached /\ Executed(fault)
        program_error ==
            IF ~ ran THEN "not_run"
            ELSE IF ata = "empty" THEN "AccountNotFound"
            ELSE ProgramBuyError(ico_state_pda, amount_lamports)
    IN  /\ Invoke([NoCall EXCEPT
                !.fn = "buy_tokens", !.signer = buyer_keypair,
                !.target = ico_owner_pubkey, !.mint = token_mint,
                !.amount = amount_lamports, !.fault = fault, !.ata = ata,
                !.accounts = IF fault \in {"bad_key", "pda_error"} THEN << >>
                             ELSE << ico_state_pda, escrow_pda >>,
                !.instructions =
                    IF ~ reached THEN << >>
                    ELSE IF ata = "error" THEN << "create_ata", "buy" >>
                    ELSE << "buy" >>,
                !.blockhash = IF reached /\ BlockhashObtained(fault)
                                THEN "latest" ELSE "unset",
                !.submits = IF reached THEN Submissions(fault) ELSE 0,
                !.result = ClientResult(fault, "none", packed, program_error,
                               "TokenPurchaseError", "TransactionError"),
                !.cause = ClientCause(fault, "none", packed, program_error)])
        /\ ico' = IF ran /\ program_error = "ok"
                    THEN ProgramBuy(ico_state_pda, amount_lamports)
                    ELSE ico
        /\ UNCHANGED resource

\* sell_tokens(solana_client, program_id_str, seller_keypair, amount_tokens,
\*             ico_owner_pubkey_str, token_mint_str); an RPC error of the
\* account query raises TokenSaleError, an empty response does not
IcoSellTokens(seller_keypair, amount_tokens, ico_owner_pubkey, token_mint, ata, fault) ==
    LET ico_state_pda == FindIcoStatePda(ico_owner_pubkey)
        escrow_pda == FindEscrowPda(ico_owner_pubkey)
        early == IF ata = "error" THEN "TokenSaleError" ELSE "none"
        packed == FitsU64(amount_tokens)
        reached == ReachedSend(fault, early, packed)
        ran == reached /\ Executed(fault)
        program_error ==
            IF ~ ran THEN "not_run"
            ELSE IF ata = "empty" THEN "AccountNotFound"
            ELSE ProgramSellError(ico_state_pda, amount_tokens)
    IN  /\ Invoke([NoCall EXCEPT
                !.fn = "sell_tokens", !.signer = seller_keypair,
                !.target = ico_owner_pubkey, !.mint = token_mint,
                !.amount = amount_tokens, !.fault = fault, !.ata = ata,
                !.accounts = IF fault \in {"bad_key", "pda_error"} THEN << >>
                             ELSE << ico_state_pda, escrow_pda >>,
                !.instructions = IF reached THEN << "sell" >> ELSE << >>,
                !.blockhash = IF reached /\ BlockhashObtained(fault)
                                THEN "latest" ELSE "unset",
                !.submits = IF reached THEN Submissions(fault) ELSE 0,
                !.result = ClientResult(fault, early, packed, program_error,
                               "TokenSaleError", "TransactionError"),
                !.cause = ClientCause(fault, early, packed, program_error)])
        /\ ico' = IF ran /\ program_error = "ok"
                    THEN ProgramSell(ico_state_pda, amount_tokens)
                    ELSE ico
        /\ UNCHANGED resource

\* withdraw_from_escrow(solana_client, program_id_str, owner_keypair,
\*                      amount_lamports): both addresses come from the
\* signer's own key
WithdrawFromEscrow(owner_keypair, amount_lamports, fault) ==
    LET ico_state_pda == FindIcoStatePda(owner_keypair)
        escrow_pda == FindEscrowPda(owner_keypair)
        packed == FitsU64(amount_lamports)
        reached == ReachedSend(fault, "none", packed)
        ran == reached /\ Executed(fault)
        program_error ==
            IF ran THEN ProgramWithdrawError(ico_state_pda, owner_keypair, amount_lamports)
            ELSE "not_run"
        done == ran /\ program_error = "ok"
    IN  /\ Invoke([NoCall EXCEPT
                !.fn = "withdraw_from_escrow", !.signer = owner_keypair,
                !.target = owner_keypair,
                !.amount = amount_lamports, !.fault = fault,
                !.accounts = IF fault \in {"bad_key", "pda_error"} THEN << >>
                             ELSE << ico_state_pda, escrow_pda >>,
                !.instructions = IF reached THEN << "withdraw" >> ELSE << >>,
                !.blockhash = IF reached /\ BlockhashObtained(fault)
                                THEN "latest" ELSE "unset",
                !.submits = IF reached THEN Submissions(fault) ELSE 0,
                !.result = ClientResult(fault, "none", packed, program_error,
                               "EscrowWithdrawalError", "EscrowWithdrawalError"),
                !.cause = ClientCause(fault, "none", packed, program_error),
                !.paid_to = IF done THEN owner_keypair ELSE "None",
                !.paid = IF done THEN amount_lamports ELSE 0])
        /\ ico' = IF done THEN ProgramWithdraw(ico_state_pda, amount_lamports) ELSE ico
        /\ UNCHANGED resource

\* ---------------------------------------------------------------- resource_manager
\* create_resource_access(solana_client, program_id_str, server_keypair,
\*                        resource_id, access_fee)
CreateResourceAccess(server_keypair, resource_id, access_fee, fault) ==
    LET resource_state_pda == FindResourceStatePda(server_keypair, resource_id)
        packed == FitsU64(access_fee)
        reached == ReachedSend(fault, "none", packed)
        ran == reached /\ Executed(fault)
        program_error ==
            IF ran THEN ProgramCreateResourceError(resource_state_pda, access_fee)
            ELSE "not_run"
    IN  /\ Invoke([NoCall EXCEPT
                !.fn = "create_resource_access", !.signer = server_keypair,
                !.target = server_keypair, !.resource_id = resource_id,
                !.amount = access_fee, !.fault = fault,
                !.accounts = IF fault \in {"bad_key", "pda_error"} THEN << >>
                             ELSE << resource_state_pda >>,
                !.instructions = IF reached THEN << "create_resource" >> ELSE << >>,
                !.blockhash = IF reached /\ BlockhashObtained(fault)
                                THEN "latest" ELSE "unset",
                !.submits = IF reached THEN Submissions(fault) ELSE 0,
                !.result = ClientResult(fault, "none", packed, program_error,
                               "ResourceCreationError", "ResourceCreationError"),
                !.cause = ClientCause(fault, "none", packed, program_error)])
        /\ resource' = IF ran /\ program_error = "ok"
                         THEN ProgramCreateResource(resource_state_pda,
                                                    server_keypair, access_fee)
                         ELSE resource
        /\ UNCHANGED ico

\* access_resource(solana_client, program_id_str, user_keypair, resource_id,
\*                 server_pubkey_str, amount_lamports): the amount is packed
\* as given, no fee is looked up on the client
AccessResource(user_keypair, resource_id, server_pubkey, amount_lamports, fault) ==
    LET resource_state_pda ==
            AccessResourceStatePda(user_keypair, server_pubkey, resource_id)
        packed == FitsU64(amount_lamports)
        reached == ReachedSend(fault, "none", packed)
        ran == reached /\ Executed(fault)
        program_error ==
            IF ran THEN ProgramAccessError(resource_state_pda, amount_lamports)
            ELSE "not_run"
        done == ran /\ program_error = "ok"
    IN  /\ Invoke([NoCall EXCEPT
                !.fn = "access_resource", !.signer = user_keypair,
                !.target = server_pubkey, !.resource_id = resource_id,
                !.amount = amount_lamports, !.fault = fault,
                !.accounts = IF fault \in {"bad_key", "pda_error"} THEN << >>
                             ELSE << resource_state_pda >>,
                !.instructions = IF reached THEN << "access_resource" >> ELSE << >>,
                !.blockhash = IF reached /\ BlockhashObtained(fault)
                                THEN "latest" ELSE "unset",
                !.submits = IF reached THEN Submissions(fault) ELSE 0,
                !.result = ClientResult(fault, "none", packed, program_error,
                               "ResourceAccessError", "ResourceAccessError"),
                !.cause = ClientCause(fault, "none", packed, program_error),
                !.paid_to = IF done THEN server_pubkey ELSE "None",
                !.paid = IF done THEN amount_lamports ELSE 0])
        /\ UNCHANGED << ico, resource >>

\* the users that buy, sell and pay for access
Users == {"alice"}

\* the arguments every fault is offered with; without a fault every choice
\* of arguments is offered
UsualConfig == [total_supply |-> 4, base_price |-> 1, scaling_factor |-> 2]
UsualMint == "mintA"
UsualAmount == 3
UsualFee == 2
UsualResource == "r1"

ChainNext ==
    \/ \E owner_keypair \in Signers, token_mint \in Mints, cfg \in IcoConfigs,
          fault \in Faults :
          /\ fault = "none" \/ (token_mint = UsualMint /\ cfg = UsualConfig)
          /\ InitializeIco(owner_keypair, token_mint, cfg, fault)
    \/ \E buyer_keypair \in Users, amount_lamports \in TradeAmounts,
          ico_owner_pubkey \in Signers, ata \in AtaStates, fault \in Faults :
          /\ fault = "none" \/ (amount_lamports = UsualAmount /\ ata = "exists")
          /\ IcoBuyTokens(buyer_keypair, amount_lamports, ico_owner_pubkey,
                          UsualMint, ata, fault)
    \/ \E seller_keypair \in Users, amount_tokens \in TradeAmounts,
          ico_owner_pubkey \in Signers, ata \in AtaStates, fault \in Faults :
          /\ fault = "none" \/ (amount_tokens = UsualAmount /\ ata = "exists")
          /\ IcoSellTokens(seller_keypair, amount_tokens, ico_owner_pubkey,
                           UsualMint, ata, fault)
    \/ \E owner_keypair \in Signers, amount_lamports \in TradeAmounts,
          fault \in Faults :
          /\ fault = "none" \/ amount_lamports = UsualAmount
          /\ WithdrawFromEscrow(owner_keypair, amount_lamports, fault)
    \/ \E server_keypair \in Signers, resource_id \in ResourceIds,
          access_fee \in AccessFees, fault \in Faults :
          /\ fault = "none" \/ (resource_id = UsualResource /\ access_fee = UsualFee)
          /\ CreateResourceAccess(server_keypair, resource_id, access_fee, fault)
    \/ \E user_keypair \in Users, resource_id \in ResourceIds,
          server_pubkey \in Signers, amount_lamports \in AccessAmounts,
          fault \in Faults :
          /\ fault = "none" \/ (resource_id = UsualResource /\ amount_lamports = UsualFee)
          /\ AccessResource(user_keypair, resource_id, server_pubkey,
                            amount_lamports, fault)

\* the ledger object plays no part in the client calls: one config is taken
ChainStart == Init /\ config.base_price = 1

\* the client functions called one after another against one program
ChainSpec == ChainStart /\ [][ChainNext]_vars

\* ---------------------------------------------------------------- helpers of the properties
\* the call of task t is the latest one made and no two calls ever overlapped:
\* the ledger then differs from op[t].pre_* by what this call alone did
Alone(t) == ~ overlapped /\ op[t].seq = opsStarted

LedgerAsBefore(t) ==
    /\ total_tokens_sold = op[t].pre_sold
    /\ total_raised = op[t].pre_raised

\* a step of a buy_tokens call with a positive amount
PositiveBuyStep ==
    \E t \in Tasks :
        \/ op'[t] # op[t] /\ op'[t].kind = "buy" /\ op'[t].amount > 0
        \/ op[t].kind = "buy" /\ pc[t] \in {"transfer", "mint"} /\ pc'[t] # pc[t]

\* tokens_sold after a buy of `amount` run alone at supply s
SeqSold(s, amount) ==
    IF amount <= 0 THEN s
    ELSE LET tokens == TruncDiv(amount * Unit, CalculateTokenPrice(s))
         IN  IF tokens + s > config.total_supply THEN s ELSE s + tokens

\* the tokens a finished buy added to the ledger
AcceptedTokens(t) ==
    IF result[t] \in {"ok", "ExternalError"} THEN op[t].tokens ELSE 0

\* the first two calls were buys, they ran on both tasks and both are over
TwoBuysDone ==
    /\ opsStarted = 2
    /\ \A t \in Tasks : op[t].kind = "buy" /\ pc[t] = "idle"

\* ---------------------------------------------------------------- C1
\* C1: after any sequence of buy_tokens, sell_tokens and withdraw calls,
\* accepted or rejected, 0 <= total_tokens_sold <= config.total_supply, and
\* no step of a buy with a positive amount decreases total_tokens_sold.
TokensSoldInRange ==
    /\ [](0 <= total_tokens_sold /\ total_tokens_sold <= config.total_supply)
    /\ [][PositiveBuyStep => total_tokens_sold' >= total_tokens_sold]_vars

\* a buy was turned away at the supply cap after earlier buys were accepted
TokensSoldInRangeWitness ==
    \E t \in Tasks :
        /\ op[t].kind = "buy"
        /\ result[t] = "InsufficientTokensError"
        /\ total_tokens_sold > 0
        /\ total_tokens_sold + op[t].tokens > config.total_supply

\* ---------------------------------------------------------------- C2
\* C2: after any sequence of buys (with or without a referrer), sells and
\* withdraws the escrow balance total_raised is never negative.
EscrowNeverNegative == total_raised >= 0

\* ---------------------------------------------------------------- C3
\* C3: when the external effect of a buy or sell (commission transfer, mint,
\* burn) fails, tokens_sold and the escrow balance after the call equal their
\* values before the call.
ExternalFailureLeavesLedger ==
    \A t \in Tasks :
        (op[t].kind \in {"buy", "sell"} /\ result[t] = "ExternalError" /\ Alone(t))
            => LedgerAsBefore(t)

\* ---------------------------------------------------------------- C4
\* C4: the side effects of one buy are all-or-nothing: a finished buy with a
\* referrer applied either none of its token operations or both of them, the
\* commission transfer and the mint; never the transfer without the mint or
\* the mint without the transfer.
BuyAllOrNothing ==
    \A t \in Tasks :
        (/\ op[t].kind = "buy"
         /\ op[t].referrer # NoReferrer
         /\ pc[t] = "idle"
         /\ result[t] \in {"ok", "ExternalError"})
            => effects[t] \in {{}, {"transfer", "mint"}}

\* ---------------------------------------------------------------- C5
\* C5: two buys in flight at once leave total_tokens_sold at the value some
\* sequential order of the two calls gives, which is the sum of what the
\* two buys were granted (no update is lost) and never above total_supply;
\* when no token operation failed exactly that many tokens were minted.
ConcurrentBuysSerializable ==
    TwoBuysDone =>
        /\ total_tokens_sold \in
              { SeqSold(SeqSold(0, op[1].amount), op[2].amount),
                SeqSold(SeqSold(0, op[2].amount), op[1].amount) }
        /\ total_tokens_sold = AcceptedTokens(1) + AcceptedTokens(2)
        /\ total_tokens_sold <= config.total_supply
        /\ (\A t \in Tasks : result[t] # "ExternalError") => minted = total_tokens_sold

\* both buys were suspended at the same time, both were granted tokens and minted
ConcurrentBuysWitness ==
    /\ TwoBuysDone
    /\ overlapped
    /\ \A t \in Tasks : result[t] = "ok" /\ op[t].tokens > 0
    /\ op[2].tokens < op[1].tokens

\* ---------------------------------------------------------------- C6
\* C6: while a buy is waiting for its transfer or mint, the tokens_sold and
\* escrow values another operation would read do not yet reflect that buy:
\* the ledger is updated only once the external effects are confirmed.
UnconfirmedBuyInvisible ==
    \A t \in Tasks :
        (op[t].kind = "buy" /\ pc[t] \in {"transfer", "mint"} /\ Alone(t))
            => LedgerAsBefore(t)

\* ---------------------------------------------------------------- C7
\* C7: a successful withdraw of `amount` lowers the escrow balance by exactly
\* `amount` and leaves tokens_sold unchanged, so the same funds cannot be
\* paid out by a second withdraw.
WithdrawDebitsEscrow ==
    \A t \in Tasks :
        (op[t].kind = "withdraw" /\ result[t] = "ok" /\ Alone(t))
            => /\ total_raised = op[t].pre_raised - op[t].amount * Unit
               /\ total_tokens_sold = op[t].pre_sold

\* ---------------------------------------------------------------- C8
\* C8: a withdraw requested by anyone but the owner fails with an
\* authorization error: nothing is submitted for it and the escrow balance
\* is unchanged.
WithdrawOnlyByOwner ==
    \A t \in Tasks :
        (op[t].kind = "withdraw" /\ op[t].who # Owner)
            => /\ pc[t] = "idle"
               /\ result[t] = "AuthorizationError"
               /\ effects[t] = {}
               /\ Alone(t) => LedgerAsBefore(t)

\* ---------------------------------------------------------------- C9
\* C9: a sell whose refund (token amount times the price at the post-sale
\* supply) exceeds the escrow balance fails with InsufficientEscrow and
\* leaves tokens_sold and the escrow balance unchanged.
SellRejectedWhenEscrowShort ==
    \A t \in Tasks :
        (/\ op[t].kind = "sell"
         /\ op[t].amount > 0
         /\ op[t].amount <= op[t].pre_sold
         /\ op[t].refund > op[t].pre_raised
         /\ Alone(t))
            => /\ result[t] = "InsufficientEscrow"
               /\ LedgerAsBefore(t)

\* ---------------------------------------------------------------- C10
\* C10: every successful sell both burns the tokens of the seller and
\* transfers the refund from the escrow to the seller.
SellBurnsAndPaysSeller ==
    \A t \in Tasks :
        (op[t].kind = "sell" /\ result[t] = "ok")
            => effects[t] = {"burn", "transfer"}

\* ---------------------------------------------------------------- C11
\* task t makes a call of the given kind in this step
Calls(t, kind) == op'[t] # op[t] /\ op'[t].kind = kind

\* floor(amount / price(s)) by its defining inequalities, price(s) being
\* base_price * (slope + s) / slope
FloorTokens(amount, s) ==
    CHOOSE k \in 0..amount :
        /\ k * config.base_price * (config.slope + s) <= amount * config.slope
        /\ amount * config.slope < (k + 1) * config.base_price * (config.slope + s)

\* C11: a buy with a positive principal at supply s is granted
\* floor(principal / price(s)) tokens; when s plus these exceeds total_supply
\* it fails with InsufficientTokensError and the ledger is unchanged,
\* otherwise tokens_sold becomes s plus the tokens and, with no referrer, the
\* escrow grows by exactly the principal; at s = 0 the price is base_price.
BuySettlesAtCurrentPrice ==
    [][\A t \in Tasks :
          (Calls(t, "buy") /\ op'[t].amount > 0) =>
              LET amount == op'[t].amount
                  s == total_tokens_sold
                  tokens == FloorTokens(amount, s)
              IN  /\ s = 0 => tokens = amount \div config.base_price
                  /\ IF s + tokens > config.total_supply
                       THEN /\ result'[t] = "InsufficientTokensError"
                            /\ UNCHANGED << total_tokens_sold, total_raised,
                                            referrers >>
                       ELSE /\ total_tokens_sold' = s + tokens
                            /\ op'[t].referrer = NoReferrer
                                  => total_raised' = total_raised + amount * Unit
      ]_vars

\* a buy without referrer at a supply above zero was granted tokens, fewer
\* than its principal would buy at the base price
BuySettlesWitness ==
    \E t \in Tasks :
        /\ op[t].kind = "buy" /\ op[t].referrer = NoReferrer /\ Alone(t)
        /\ result[t] = "ok"
        /\ op[t].pre_sold > 0 /\ op[t].tokens > 0
        /\ op[t].tokens < op[t].amount \div config.base_price
        /\ total_tokens_sold = op[t].pre_sold + op[t].tokens
        /\ total_raised = op[t].pre_raised + op[t].amount * Unit

\* ---------------------------------------------------------------- C12
\* C12: for a buy with a referrer the referrer is sent exactly
\* principal * commission_rate and the escrow is credited exactly the
\* principal less that commission, so the two add up to the principal.
CommissionSplitsPrincipal ==
    \A t \in Tasks :
        (/\ op[t].kind = "buy" /\ op[t].referrer # NoReferrer
         /\ result[t] = "ok" /\ op[t].seq = 1 /\ Alone(t))
            => /\ received[op[t].referrer] * Unit = op[t].commission
               /\ total_raised = op[t].amount * Unit - op[t].commission
               /\ received[op[t].referrer] * Unit + total_raised = op[t].amount * Unit

\* ---------------------------------------------------------------- C13
\* C13: a buy with principal <= 0 and a sell with token_amount <= 0 are
\* rejected with InvalidAmountError before anything is done: tokens_sold,
\* escrow and the referrer mapping are unchanged and no mint, burn or
\* transfer is issued.
NonPositiveAmountRejected ==
    [][\A t \in Tasks :
          ((Calls(t, "buy") \/ Calls(t, "sell")) /\ op'[t].amount <= 0) =>
              /\ result'[t] = "InvalidAmountError"
              /\ pc'[t] = "idle"
              /\ effects'[t] = {}
              /\ UNCHANGED << total_tokens_sold, total_raised, referrers,
                              minted, burned, received >>
      ]_vars

\* a buy of a non-positive amount naming a referrer was rejected on a ledger
\* that had sold tokens, and the buyer still has no referrer
NonPositiveAmountWitness ==
    \E t \in Tasks :
        /\ op[t].kind = "buy" /\ op[t].amount <= 0 /\ op[t].referrer # NoReferrer
        /\ result[t] = "InvalidAmountError"
        /\ total_tokens_sold > 0
        /\ referrers[op[t].who] = NoReferrer

BuyThenSellRestoresSupply ==
    [][\A t \in Tasks :
          (/\ op[t].kind = "buy" /\ result[t] = "ok" /\ Alone(t)
           /\ \A u \in Tasks : pc[u] = "idle"
           /\ Calls(t, "sell")
           /\ op'[t].amount = op[t].tokens)
              => total_tokens_sold' = op[t].pre_sold
      ]_vars

\* the second call sold the tokens the first call, a buy, had minted
BuyThenSellWitness ==
    \E t \in Tasks :
        /\ op[t].kind = "sell" /\ op[t].seq = 2 /\ ~ overlapped
        /\ result[t] \in {"pending", "ok"}
        /\ op[t].amount > 0
        /\ minted = op[t].amount
        /\ op[t].pre_sold = op[t].amount
        /\ total_tokens_sold = 0

\* ---------------------------------------------------------------- helpers of the client-call properties
\* a client function is called in this step
ClientStep == calls' = calls + 1

\* the addresses that hold an IcoState of this owner
IcoStatesOf(owner, accounts) ==
    { a \in IcoAddresses : accounts[a].exists /\ accounts[a].owner = owner }

\* the errors a client function can end with
ClientErrors ==
    {"ValueError", "PDAError", "TransactionError", "ICOInitializationError",
     "TokenPurchaseError", "TokenSaleError", "EscrowWithdrawalError",
     "ResourceCreationError", "ResourceAccessError"}

InvalidConfigNeverSubmitted ==
    (/\ last.fn = "initialize_ico"
     /\ \/ last.config.total_supply <= 0
        \/ last.config.base_price < 0
        \/ last.config.scaling_factor <= 0)
        => /\ last.result \in ClientErrors
           /\ last.submits = 0
           /\ last.instructions = << >>

SubmitsAtMostOnce ==
    /\ last.submits <= 1
    /\ last.fault \in {"no_blockhash", "blockhash_error", "rpc_error", "timeout"}
          => last.result \in ClientErrors

\* a buy whose submission timed out ended with an error after one submission
SubmitsAtMostOnceWitness ==
    /\ last.fn = "buy_tokens" /\ last.fault = "timeout"
    /\ last.submits = 1
    /\ last.result = "TransactionError"

\* ---------------------------------------------------------------- C21
\* the faults that make solana_client.send_transaction raise TransactionError
SendFaults == {"no_blockhash", "blockhash_error", "rpc_error", "timeout"}

\* the error each client function is documented to raise for its own failures
OperationError(fn) ==
    CASE fn = "initialize_ico" -> "ICOInitializationError"
      [] fn = "buy_tokens" -> "TokenPurchaseError"
      [] fn = "sell_tokens" -> "TokenSaleError"
      [] fn = "withdraw_from_escrow" -> "EscrowWithdrawalError"
      [] fn = "create_resource_access" -> "ResourceCreationError"
      [] fn = "access_resource" -> "ResourceAccessError"
      [] OTHER -> "none"

TradeSendFailureIsOwnError ==
    (last.fn \in {"buy_tokens", "sell_tokens"} /\ last.fault \in SendFaults)
        => /\ last.result = OperationError(last.fn)
           /\ last.result # "TransactionError"

\* ---------------------------------------------------------------- C23
\* C23: when the buyer's associated token account is absent at the time of
\* buy_tokens, reported by an empty result or by an error of the query, the
\* submitted transaction holds the create-associated-token-account
\* instruction before the buy instruction; when the account exists it holds
\* the buy instruction only.
BuyCreatesMissingTokenAccount ==
    (last.fn = "buy_tokens" /\ last.instructions # << >>)
        => IF last.ata = "exists"
             THEN last.instructions = << "buy" >>
             ELSE last.instructions = << "create_ata", "buy" >>

\* ---------------------------------------------------------------- C24
\* C24: initialize_ico, buy_tokens, sell_tokens and withdraw_from_escrow for
\* one ICO owner all address the ico_state and escrow accounts derived from
\* that owner's key, whoever buys or sells, and create_resource_access and
\* access_resource for one (server, resource_id) address the same record.
AccountsDerivedFromOwner ==
    last.accounts # << >> =>
        IF last.fn \in {"initialize_ico", "buy_tokens", "sell_tokens",
                        "withdraw_from_escrow"}
          THEN last.accounts = << << "ico_state", last.target >>,
                                  << "escrow_account", last.target >> >>
          ELSE last.accounts = << << "resource_state", last.target,
                                     last.resource_id >> >>

\* a buyer other than the owner bought from the IcoState that initialize_ico
\* of the owner had created
AccountsDerivedFromOwnerWitness ==
    /\ last.fn = "buy_tokens" /\ last.result = "ok"
    /\ last.signer # last.target
    /\ Len(last.accounts) = 2
    /\ ico[last.accounts[1]].exists
    /\ ico[last.accounts[1]].owner = last.target
    /\ ico[last.accounts[1]].tokens_sold > 0

\* ---------------------------------------------------------------- C28
\* C28: sell_tokens submits no transaction unless the seller's associated
\* token account exists: when the query reports it absent, by an error or
\* by an empty result, sell_tokens fails with TokenSaleError and
\* send_transaction is not called.
SellNeedsTokenAccount ==
    (/\ last.fn = "sell_tokens"
     /\ last.fault \notin {"bad_key", "pda_error"}
     /\ last.ata # "exists")
        => /\ last.result = "TokenSaleError"
           /\ last.submits = 0
           /\ last.instructions = << >>

\* ---------------------------------------------------------------- C29
\* C29: SolanaClient.send_transaction fetches the latest blockhash and sets
\* it on the transaction before it submits; when no blockhash is obtained
\* (empty response or RPC error) nothing is submitted and the call fails
\* with the TransactionError, as the caller reports it.
BlockhashBeforeSubmission ==
    /\ last.submits >= 1 => last.blockhash = "latest"
    /\ (last.instructions # << >> /\ last.fault \in {"no_blockhash", "blockhash_error"})
          => /\ last.submits = 0
             /\ last.blockhash = "unset"
             /\ last.cause = last.fault
             /\ last.result \in {"TransactionError", OperationError(last.fn)}

\* a transaction was built but never submitted: the blockhash response was empty
BlockhashBeforeSubmissionWitness ==
    /\ last.fn = "create_resource_access" /\ last.fault = "no_blockhash"
    /\ last.instructions = << "create_resource" >>
    /\ last.submits = 0
    /\ last.result = "ResourceCreationError"

\* ---------------------------------------------------------------- cli/bonding_curves, cli/token_pricing
\* pricing commands run in one session
MaxQuotes == 3

\* the float arguments of the commands, whole-valued
Supplies == {0, 5, 10, 15}
DeltaS == {-5, 5, 10}
Slopes == {-1, 2}
Intercepts == {1, 5}

\* faulty variant of LinearPrice: the price falls with the supply
LinearPriceFalling(supply, slope, initial_price) ==
    initial_price - slope * supply

\* linear_price(supply, slope, initial_price)
LinearPrice(supply, slope, initial_price) ==
    slope * supply + initial_price

\* faulty variant of BuySellCostHalves: the square term is not halved
BuySellCostUnhalved(supply, delta_s, slope, y_intercept) ==
    2 * (slope * (delta_s * delta_s))
        + 2 * ((slope * supply + y_intercept) * delta_s)

\* cost = slope * (delta_s**2) / 2 + (slope * supply + y_intercept) * delta_s,
\* a float with at most one binary digit on whole arguments: kept as the
\* number of halves, twice the float
BuySellCostHalves(supply, delta_s, slope, y_intercept) ==
    slope * (delta_s * delta_s)
        + 2 * ((slope * supply + y_intercept) * delta_s)

\* abs(delta_s)
Abs(x) == IF x < 0 THEN -x ELSE x

\* the commands of one session quote one curve
SameCurve(slope, intercept) ==
    \A i \in DOMAIN quotes :
        quotes[i].given
            => (quotes[i].slope = slope /\ quotes[i].intercept = intercept)

\* bookkeeping of every pricing command: its printed line is kept
Quote(line) ==
    /\ Len(quotes) < MaxQuotes
    /\ quotes' = Append(quotes, line)
    /\ UNCHANGED << ledgerVars, chainVars, cliVars, proxyVars >>

\* handle_token_pricing_commands, command calculate_price, curve_type linear;
\* given: --slope and --initial_price were both passed (they are optional)
CalculatePrice(supply, given, slope, initial_price) ==
    IF ~ given
      THEN Quote([command |-> "calculate_price", supply |-> supply,
                  given |-> FALSE, delta_s |-> 0, slope |-> 0, intercept |-> 0,
                  text |-> "Error: Slope and initial price are required for linear curve",
                  tokens |-> 0, price |-> 0, cost_halves |-> 0])
      ELSE /\ SameCurve(slope, initial_price)
           /\ Quote([command |-> "calculate_price", supply |-> supply,
                     given |-> TRUE, delta_s |-> 0, slope |-> slope, intercept |-> initial_price,
                     text |-> "Price for linear curve",
                     tokens |-> 0,
                     price |-> LinearPrice(supply, slope, initial_price),
                     cost_halves |-> 0])

\* handle_token_pricing_commands, command calculate_buy_sell_price
CalculateBuySellPrice(supply, delta_s, slope, y_intercept) ==
    LET cost == BuySellCostHalves(supply, delta_s, slope, y_intercept)
    IN  /\ SameCurve(slope, y_intercept)
        /\ Quote([command |-> "calculate_buy_sell_price", supply |-> supply,
                  given |-> TRUE, delta_s |-> delta_s, slope |-> slope, intercept |-> y_intercept,
                  text |-> IF delta_s > 0 THEN "Cost to buy"
                                          ELSE "Revenue from selling",
                  tokens |-> IF delta_s > 0 THEN delta_s ELSE Abs(delta_s),
                  price |-> 0, cost_halves |-> cost])

PricingNext ==
    \/ \E supply \in Supplies, slope \in Slopes, initial_price \in Intercepts :
            CalculatePrice(supply, TRUE, slope, initial_price)
    \/ \E supply \in Supplies : CalculatePrice(supply, FALSE, 0, 0)
    \/ \E supply \in Supplies, delta_s \in DeltaS, slope \in Slopes,
          y_intercept \in Intercepts :
            CalculateBuySellPrice(supply, delta_s, slope, y_intercept)

PricingSpec == ChainStart /\ [][PricingNext]_vars

\* the lines of one command
QuotesOf(command) ==
    { i \in DOMAIN quotes :
          quotes[i].command = command /\ quotes[i].given }

\* C25: on a curve with a positive slope the linear price never falls as the
\* supply grows, the price at supply 0 is the initial price, and slope 2 with
\* initial price 1 gives 1 at supply 0 and 21 at supply 10
LinearPriceMonotonic ==
    \A i \in QuotesOf("calculate_price") :
        /\ \A j \in QuotesOf("calculate_price") :
               (quotes[i].slope > 0 /\ quotes[i].supply <= quotes[j].supply)
                   => quotes[i].price <= quotes[j].price
        /\ quotes[i].supply = 0 => quotes[i].price = quotes[i].intercept
        /\ (quotes[i].slope = 2 /\ quotes[i].intercept = 1)
               => /\ quotes[i].supply = 0 => quotes[i].price = 1
                  /\ quotes[i].supply = 10 => quotes[i].price = 21

\* the curve of the scenario was priced at supply 0 and at supply 10
LinearPriceMonotonicWitness ==
    \E i, j \in QuotesOf("calculate_price") :
        /\ quotes[i].slope = 2 /\ quotes[i].intercept = 1
        /\ quotes[i].supply = 0 /\ quotes[i].price = 1
        /\ quotes[j].supply = 10 /\ quotes[j].price = 21

MaxRuns == 2

\* exceptions.py, and the builtin and typer classes run_app names: each
\* class with its base class
ExceptionBase ==
    [ SolanaIcoError |-> "Exception",
      ConfigurationError |-> "SolanaIcoError",
      SolanaConnectionError |-> "SolanaIcoError",
      KeypairError |-> "SolanaIcoError",
      TransactionError |-> "SolanaIcoError",
      ICOError |-> "SolanaIcoError",
      ICOInitializationError |-> "ICOError",
      TokenPurchaseError |-> "ICOError",
      TokenSaleError |-> "ICOError",
      EscrowWithdrawalError |-> "ICOError",
      ResourceError |-> "SolanaIcoError",
      ResourceCreationError |-> "ResourceError",
      ResourceAccessError |-> "ResourceError",
      PDAError |-> "SolanaIcoError",
      ValueError |-> "Exception",
      RuntimeError |-> "Exception",
      NotImplementedError |-> "RuntimeError",
      OSError |-> "Exception",
      FileNotFoundError |-> "OSError",
      KeyError |-> "Exception",
      TyperExit |-> "RuntimeError",
      Exception |-> "Exception" ]

\* what can escape app()
ExceptionKinds == DOMAIN ExceptionBase \ {"Exception"}
\* e.code of a typer.Exit
ExitCodes == {0, 2}

\* isinstance(e, cls)
RECURSIVE IsInstance(_, _)
IsInstance(kind, cls) ==
    \/ kind = cls
    \/ kind # "Exception" /\ IsInstance(ExceptionBase[kind], cls)

\* the except clauses of run_app, in order: the classes caught, the
\* heading printed, whether type(e).__name__ is printed with it
Handlers ==
    << [classes |-> {"ConfigurationError"}, report |-> "Configuration Error",
        names_type |-> FALSE],
       [classes |-> {"KeypairError"}, report |-> "Keypair Error",
        names_type |-> FALSE],
       [classes |-> {"SolanaConnectionError"}, report |-> "Connection Error",
        names_type |-> FALSE],
       [classes |-> {"TransactionError"}, report |-> "Transaction Error",
        names_type |-> FALSE],
       [classes |-> {"ICOError", "ResourceError", "PDAError"},
        report |-> "Application Logic Error", names_type |-> FALSE],
       [classes |-> {"ValueError"}, report |-> "Invalid Input Error",
        names_type |-> FALSE],
       [classes |-> {"NotImplementedError"},
        report |-> "Feature Not Fully Implemented", names_type |-> FALSE],
       [classes |-> {"FileNotFoundError"}, report |-> "File Not Found Error",
        names_type |-> FALSE],
       [classes |-> {"TyperExit"}, report |-> "none", names_type |-> FALSE],
       [classes |-> {"Exception"}, report |-> "An unexpected error occurred",
        names_type |-> TRUE] >>

\* the first except clause that catches the exception
Catches(h, kind) == \E cls \in Handlers[h].classes : IsInstance(kind, cls)
Handler(kind) ==
    CHOOSE h \in DOMAIN Handlers :
        /\ Catches(h, kind)
        /\ \A g \in DOMAIN Handlers : g < h => ~ Catches(g, kind)

\* run_app: app() raises an exception of the given kind (code: e.code of a
\* typer.Exit), or "none" when app() ends the process itself with status 0
RunApp(raised, code) ==
    /\ Len(runs) < MaxRuns
    /\ runs' = Append(runs,
           IF raised = "none"
             THEN [raised |-> raised, report |-> "none", names_type |-> FALSE,
                   exit_code |-> 0]
             ELSE LET h == Handlers[Handler(raised)]
                  IN  [raised |-> raised, report |-> h.report,
                       names_type |-> h.names_type,
                       exit_code |-> IF raised = "TyperExit" THEN code ELSE 1])
    /\ UNCHANGED << ledgerVars, chainVars, pricingVars, proxyVars >>

CliNext ==
    \/ \E raised \in ExceptionKinds \ {"TyperExit"} : RunApp(raised, 1)
    \/ \E code \in ExitCodes : RunApp("TyperExit", code)
    \/ RunApp("none", 0)

CliSpec == ChainStart /\ [][CliNext]_vars

MaxProxyCalls == 3

\* TokenSale.buy_tokens(amount, buyer, referrer) on one TokenSale object
SaleBuyTokens(sale, amount, buyer, referrer) ==
    LET token_price == CalculateTokenPrice(sale.total_tokens_sold)
        tokens_to_buy == TokensToBuy(amount, token_price)
        commission == IF referrer # NoReferrer THEN Commission(amount) ELSE 0
    IN  IF InvalidAmount(amount)
          THEN [sale |-> sale, result |-> "InvalidAmountError"]
          ELSE IF SupplyExceeded(tokens_to_buy, sale.total_tokens_sold)
          THEN [sale |-> sale, result |-> "InsufficientTokensError"]
          ELSE [sale |->
                  [total_tokens_sold |-> sale.total_tokens_sold + tokens_to_buy,
                   total_raised |-> sale.total_raised + amount * Unit - commission,
                   referrers |-> IF referrer # NoReferrer
                                   THEN [sale.referrers EXCEPT ![buyer] = referrer]
                                   ELSE sale.referrers],
                result |-> "ok"]

\* TokenSale.sell_tokens(tokens_to_sell, seller) on one TokenSale object
SaleSellTokens(sale, tokens_to_sell, seller) ==
    LET token_price ==
            CalculateTokenPrice(SellSupply(sale.total_tokens_sold, tokens_to_sell))
        amount_to_return == AmountToReturn(tokens_to_sell, token_price)
    IN  IF InvalidAmount(tokens_to_sell)
          THEN [sale |-> sale, result |-> "InvalidAmountError"]
          ELSE IF CirculationShort(tokens_to_sell, sale.total_tokens_sold)
          THEN [sale |-> sale, result |-> "InsufficientTokensError"]
          ELSE [sale |->
                  [sale EXCEPT
                     !.total_tokens_sold =
                         SoldAfterSell(sale.total_tokens_sold, tokens_to_sell),
                     !.total_raised = sale.total_raised - amount_to_return],
                result |-> "ok"]

\* TokenSale.withdraw() on one TokenSale object: int(self.total_raised)
\* lamports are sent, the fields stay as they are; a negative number of
\* lamports cannot be transferred
SaleWithdraw(sale) ==
    [sale |-> sale,
     result |-> IF TruncDiv(sale.total_raised, Unit) >= 0 THEN "ok"
                                                          ELSE "ExternalError"]

\* faulty variant of ImplementationAfterSet: the proxy keeps its first object
ImplementationKept(old_implementation, new_implementation) ==
    old_implementation

\* set_implementation: self._implementation = new_implementation
ImplementationAfterSet(old_implementation, new_implementation) ==
    new_implementation

\* bookkeeping of every call on the proxy: it is recorded as the latest one
OnProxy(call) ==
    /\ proxyCalls < MaxProxyCalls
    /\ proxyCalls' = proxyCalls + 1
    /\ proxied' = [call EXCEPT !.seq = proxyCalls + 1]
    /\ UNCHANGED << ledgerVars, chainVars, pricingVars, cliVars >>

\* TokenSaleProxy.set_implementation(new_implementation)
SetImplementation(new_implementation) ==
    /\ implementation' = ImplementationAfterSet(implementation, new_implementation)
    /\ sales' = sales
    /\ OnProxy([NoProxied EXCEPT !.fn = "set_implementation",
                                 !.target = new_implementation,
                                 !.before = sales[new_implementation]])

\* TokenSaleProxy.buy_tokens(amount, buyer, referrer)
ProxyBuyTokens(amount, buyer, referrer) ==
    LET out == SaleBuyTokens(sales[implementation], amount, buyer, referrer)
    IN  /\ sales' = [sales EXCEPT ![implementation] = out.sale]
        /\ implementation' = implementation
        /\ OnProxy([NoProxied EXCEPT
                      !.fn = "buy_tokens", !.target = implementation,
                      !.amount = amount, !.who = buyer, !.referrer = referrer,
                      !.printed = << "Buying", amount, buyer, referrer >>,
                      !.result = out.result,
                      !.before = sales[implementation]])

\* TokenSaleProxy.sell_tokens(amount, seller)
ProxySellTokens(amount, seller) ==
    LET out == SaleSellTokens(sales[implementation], amount, seller)
    IN  /\ sales' = [sales EXCEPT ![implementation] = out.sale]
        /\ implementation' = implementation
        /\ OnProxy([NoProxied EXCEPT
                      !.fn = "sell_tokens", !.target = implementation,
                      !.amount = amount, !.who = seller,
                      !.printed = << "Selling", amount, seller >>,
                      !.result = out.result,
                      !.before = sales[implementation]])

\* TokenSaleProxy.withdraw()
ProxyWithdraw ==
    LET out == SaleWithdraw(sales[implementation])
    IN  /\ sales' = [sales EXCEPT ![implementation] = out.sale]
        /\ implementation' = implementation
        /\ OnProxy([NoProxied EXCEPT
                      !.fn = "withdraw", !.target = implementation,
                      !.printed = << "Withdrawing",
                                     sales[implementation].total_raised >>,
                      !.result = out.result,
                      !.before = sales[implementation]])

ProxyNext ==
    \/ \E new_implementation \in Implementations :
            SetImplementation(new_implementation)
    \/ \E amount \in BuyAmounts, buyer \in Buyers, referrer \in Referrers :
            ProxyBuyTokens(amount, buyer, referrer)
    \/ \E amount \in SellAmounts, seller \in Buyers :
            ProxySellTokens(amount, seller)
    \/ ProxyWithdraw

ProxySpec == ChainStart /\ [][ProxyNext]_vars

\* the operations the proxy forwards
ProxyOps == {"buy_tokens", "sell_tokens", "withdraw"}

\* the object the proxy was last pointed at, by the calls made on it: the
\* one passed to the constructor until set_implementation names another
Pointed == IF proxied.fn = "none" THEN "v1" ELSE proxied.target

\* the same call made on a TokenSale object itself
DirectCall(sale, call) ==
    CASE call.fn = "buy_tokens" ->
             SaleBuyTokens(sale, call.amount, call.who, call.referrer)
      [] call.fn = "sell_tokens" ->
             SaleSellTokens(sale, call.amount, call.who)
      [] OTHER -> SaleWithdraw(sale)

====
